---- MODULE Spec2Model ----
(***************************************************************************)
(* Guardian daemon (lido-council-daemon): SecurityService, its callers and *)
(* ProviderService, as a state machine.                                    *)
(*                                                                         *)
(* An asynchronous call of a service method is a task.  A task runs        *)
(* atomically from one `await` to the next (cooperative single-threaded    *)
(* runtime), so every action below is the code between two suspension      *)
(* points.                                                                 *)
(***************************************************************************)
EXTENDS Integers, Sequences, FiniteSets, TLC

\* ------------------------------------------------------------- bounds
MaxTasks == 2
MaxModules == 2
MaxBlock == 2
MaxCalls == 3
MaxGuardians == 2
MaxDrift == 3

Tasks == 1..MaxTasks
Modules == 1..MaxModules
Blocks == 1..MaxBlock

\* Saturation point of the history counters (never reached under Spec, where
\* MaxCalls bounds the number of invocations).
MaxCount == MaxCalls

NULL == "null"

\* The address derived from WALLET_PRIVATE_KEY, and another guardian's.
WalletAddress == "w"
Addresses == {"a", WalletAddress}

\* Values the DSM contract may hold as ATTEST_MESSAGE_PREFIX / PAUSE_MESSAGE_PREFIX
\* (bytes32 rendered as a non-empty hex string).
AttestPrefixes == {"A1", "A2"}
PausePrefixes == {"P1", "P2"}

RECURSIVE SeqsUpTo(_, _)
SeqsUpTo(S, n) ==
  IF n = 0 THEN {<<>>}
  ELSE LET shorter == SeqsUpTo(S, n - 1)
       IN shorter \cup {Append(s, x) : s \in shorter, x \in S}

Range(s) == {s[i] : i \in 1..Len(s)}

\* Guardian lists the DSM contract can return: no address twice.
GuardianLists ==
  {s \in SeqsUpTo(Addresses, MaxGuardians) : Cardinality(Range(s)) = Len(s)}

Inc(n) == IF n < MaxCount THEN n + 1 ELSE n

VARIABLES
  head,                       \* chain: number of the latest block
  guardiansAt,                \* chain: DSM guardian list at each block
  moduleActive,               \* chain: StakingRouter.getStakingModuleIsActive
  dsm,                        \* chain: the DSM contract's two prefix constants
  cachedAttestMessagePrefix,  \* SecurityService field
  cachedPauseMessagePrefix,   \* SecurityService field
  isExecuting,                \* OneAtTime gate of pauseDeposits
  pauseAttempts,              \* METRIC_PAUSE_ATTEMPTS counter
  task,                       \* the asynchronous calls in progress
  tx,                         \* the pause transaction of each call
  attestPrefixCalls,          \* history: calls of contract.ATTEST_MESSAGE_PREFIX()
  pausePrefixCalls,           \* history: calls of contract.PAUSE_MESSAGE_PREFIX()
  walletLog,                  \* history: what the wallet was asked to sign
  calls,                      \* history: invocations made by outside callers
  orch,                       \* block loop: position in the per-block pipeline
  conflict,                   \* block loop: modules whose conflict set is non-empty
  bus,                        \* message bus: messages published for the block
  decision,                   \* block loop: Decision per module for the block
  blockSigns,                 \* history: wallet signatures requested for the block
  blockPauses,                \* history: pauseDeposits invocations for the block
  skippedPause,               \* history: modules whose pause was skipped at the gate
  rpc,                        \* JSON-RPC provider behind ProviderService
  pcall,                      \* ProviderService call in progress
  rpcCalls,                   \* history: provider method calls of that call
  clockMs,                    \* Date.now() of the host, in milliseconds
  latestTimestamp,            \* timestamp (s) of the provider's latest block
  health                      \* ProviderHealthIndicator.isHealthy call in progress

chainVars == <<head, guardiansAt, moduleActive, dsm>>
cacheVars == <<cachedAttestMessagePrefix, cachedPauseMessagePrefix>>
prefixHist == <<attestPrefixCalls, pausePrefixCalls>>
pauseVars == <<isExecuting, pauseAttempts, tx>>
pipeVars == <<orch, conflict, bus, decision, blockSigns, blockPauses, skippedPause>>
healthVars == <<clockMs, latestTimestamp, health>>
provVars == <<rpc, pcall, rpcCalls, healthVars>>
vars == <<head, guardiansAt, moduleActive, dsm, cachedAttestMessagePrefix,
          cachedPauseMessagePrefix, isExecuting, pauseAttempts, task, tx,
          attestPrefixCalls, pausePrefixCalls, walletLog, calls,
          orch, conflict, bus, decision, blockSigns, blockPauses, skippedPause,
          rpc, pcall, rpcCalls, clockMs, latestTimestamp, health>>

\* ------------------------------------------------------------- values
NoSig == [r |-> <<>>, _vs |-> <<>>]

\* walletService.signDepositData / signPauseData: deterministic in the payload.
WalletSign(kind, prefix, blockNumber, stakingModuleId) ==
  [r |-> <<"r", kind, prefix, blockNumber, stakingModuleId>>,
   _vs |-> <<"vs", kind, prefix, blockNumber, stakingModuleId>>]

\* Signatures an outside caller may hand to pauseDeposits.
SigPool == {WalletSign("pause", p, 1, 1) : p \in PausePrefixes}

NoTx == [state |-> "none", blockNumber |-> 0, stakingModuleId |-> 0,
         r |-> <<>>, vs |-> <<>>]

IdleTask ==
  [op |-> "none", pc |-> "idle", blockNumber |-> 0, stakingModuleId |-> 0,
   sig |-> NoSig, prefix |-> NULL, guardians |-> <<>>, index |-> 0,
   outcome |-> "none", err |-> "none", busy |-> FALSE, trace |-> <<>>]

NewTask(op, pc, blockNumber, stakingModuleId, sig) ==
  [IdleTask EXCEPT !.op = op, !.pc = pc, !.blockNumber = blockNumber,
                   !.stakingModuleId = stakingModuleId, !.sig = sig,
                   !.outcome = "pending"]

IdleOrch == [pc |-> "idle", cursor |-> 1, blockNumber |-> 0, fresh |-> TRUE,
             guardianIndex |-> 0, inSet |-> TRUE, wait |-> 0]
NoMessages == [deposit |-> 0, pause |-> 0]

\* Values crossing the ProviderService interface, in one shape: a Network
\* object (chainId, name), a number, or a Block (number, the tag it was got by).
NoValue == [type |-> "none", num |-> 0, name |-> ""]
NetworkValue(chainId, name) == [type |-> "network", num |-> chainId, name |-> name]
NumberValue(n) == [type |-> "number", num |-> n, name |-> ""]
BlockValue(n, tag) == [type |-> "block", num |-> n, name |-> tag]

\* What provider.getNetwork() can resolve to.
Networks == {NetworkValue(1, "homestead"), NetworkValue(5, "goerli"),
             NetworkValue(42, "kovan")}

IdleCall == [op |-> "none", pc |-> "idle", tag |-> "none", ret |-> NoValue,
             got |-> NoValue, outcome |-> "none"]
NoRpcCalls == [getNetwork |-> 0, getBlockNumber |-> 0, getBlock |-> 0]

\* health.constants: the block delay (s) from which the provider is unhealthy.
MAX_BLOCK_DELAY_SECONDS == 2

\* getNowTimestamp divides Date.now() by 1000.
MsPerSecond == 1000

\* Unix times (s) of the clock and of the blocks: a running host's clock and
\* the chain's blocks are far past the epoch, at least the threshold after it.
Times == MAX_BLOCK_DELAY_SECONDS .. (MAX_BLOCK_DELAY_SECONDS + MaxDrift)

IdleHealth == [pc |-> "idle", blockFailed |-> FALSE, blockTimestamp |-> 0,
               nowTimestamp |-> 0, status |-> "none", thrown |-> "none"]

\* A slot holds no call in progress.
Free(t) == task[t].pc \in {"idle", "done"}

\* JavaScript `!value` for `string | null`.
Falsy(v) == v = NULL \/ v = ""

\* The chain when the daemon starts: guardian lists drawn from G, the DSM
\* contract's prefix constants from A and P.
ChainInit(G, A, P) ==
  /\ head = 1
  /\ guardiansAt \in [Blocks -> G \cup {<<>>}]
  /\ guardiansAt[1] \in G
  /\ \A b \in Blocks : b > 1 => guardiansAt[b] = <<>>
  /\ moduleActive = [m \in Modules |-> TRUE]
  /\ dsm \in [attest : A, pause : P]

\* State after construction of the services (fields at lines 98-99 are null).
ServiceInit ==
  /\ cachedAttestMessagePrefix = NULL
  /\ cachedPauseMessagePrefix = NULL
  /\ isExecuting = FALSE
  /\ pauseAttempts = 0
  /\ task = [t \in Tasks |-> IdleTask]
  /\ tx = [t \in Tasks |-> NoTx]
  /\ attestPrefixCalls = 0
  /\ pausePrefixCalls = 0
  /\ walletLog = {}
  /\ calls = 0

PipeInit ==
  /\ orch = IdleOrch
  /\ conflict = [m \in Modules |-> FALSE]
  /\ bus = [m \in Modules |-> NoMessages]
  /\ decision = [m \in Modules |-> "none"]
  /\ blockSigns = 0
  /\ blockPauses = 0
  /\ skippedPause = [m \in Modules |-> FALSE]

ProvInit ==
  /\ rpc = [network |-> NetworkValue(5, "goerli"), blockNumber |-> 1, asked |-> "none"]
  /\ pcall = IdleCall
  /\ rpcCalls = NoRpcCalls
  /\ clockMs = MAX_BLOCK_DELAY_SECONDS * MsPerSecond
  /\ latestTimestamp = MAX_BLOCK_DELAY_SECONDS
  /\ health = IdleHealth

Init ==
  /\ ChainInit({<<WalletAddress>>}, {"A1"}, {"P1"})
  /\ ServiceInit /\ PipeInit /\ ProvInit

\* ------------------------------------------------------------- chain
\* A new block is mined; the guardian set may differ from the previous block's.
NewBlock ==
  /\ head < MaxBlock
  /\ \E g \in GuardianLists :
       guardiansAt' = [guardiansAt EXCEPT ![head + 1] = g]
  /\ head' = head + 1
  /\ UNCHANGED <<moduleActive, dsm, cacheVars, pauseVars, task, prefixHist,
                 walletLog, calls, pipeVars, provVars>>

\* ------------------------------------------------- SecurityService
svcRest == <<isExecuting, pauseAttempts>>

AttestOps == {"getAttestMessagePrefix", "signDepositData"}
PauseOps == {"getPauseMessagePrefix", "signPauseData"}
SignOps == {"signDepositData", "signPauseData"}

\* The caller of a prefix getter resumes with prefix p: the getter's own caller
\* gets p as the result, signDepositData / signPauseData go on to the wallet.
PrefixReturned(rec, p) ==
  IF rec.op \in SignOps
  THEN [rec EXCEPT !.prefix = p, !.pc = "awaitSign"]
  ELSE [rec EXCEPT !.prefix = p, !.pc = "done", !.outcome = "ok"]

\* The wallet is asked to sign as soon as the sign operation has its prefix.
WalletAsked(rec) ==
  IF rec.pc = "awaitSign"
  THEN walletLog \cup {[op |-> rec.op, prefix |-> rec.prefix]}
  ELSE walletLog

\* getAttestMessagePrefix up to its first await: the cache test.
AttestPrefixEntry(rec) ==
  IF Falsy(cachedAttestMessagePrefix)
  THEN [rec EXCEPT !.pc = "awaitContract"]
  ELSE PrefixReturned(rec, cachedAttestMessagePrefix)

\* getPauseMessagePrefix up to its first await: the cache test.
PausePrefixEntry(rec) ==
  IF Falsy(cachedPauseMessagePrefix)
  THEN [rec EXCEPT !.pc = "awaitContract"]
  ELSE PrefixReturned(rec, cachedPauseMessagePrefix)

\* A call starts in slot t with record rec.
Start(t, rec) ==
  /\ Free(t)
  /\ task' = [task EXCEPT ![t] = rec]
  /\ tx' = [tx EXCEPT ![t] = NoTx]
  /\ walletLog' = WalletAsked(rec)

getAttestMessagePrefix(t) ==
  /\ Start(t, AttestPrefixEntry(NewTask("getAttestMessagePrefix", "start", 0, 0, NoSig)))
  /\ UNCHANGED <<cacheVars, prefixHist, svcRest>>

getPauseMessagePrefix(t) ==
  /\ Start(t, PausePrefixEntry(NewTask("getPauseMessagePrefix", "start", 0, 0, NoSig)))
  /\ UNCHANGED <<cacheVars, prefixHist, svcRest>>

signDepositData(t, blockNumber, stakingModuleId) ==
  /\ Start(t, AttestPrefixEntry(
                NewTask("signDepositData", "start", blockNumber, stakingModuleId, NoSig)))
  /\ UNCHANGED <<cacheVars, prefixHist, svcRest>>

signPauseData_attestPrefix(t, blockNumber, stakingModuleId) ==
  /\ Start(t, AttestPrefixEntry(
                NewTask("signPauseData", "start", blockNumber, stakingModuleId, NoSig)))
  /\ UNCHANGED <<cacheVars, prefixHist, svcRest>>

signPauseData(t, blockNumber, stakingModuleId) ==
  /\ Start(t, PausePrefixEntry(
                NewTask("signPauseData", "start", blockNumber, stakingModuleId, NoSig)))
  /\ UNCHANGED <<cacheVars, prefixHist, svcRest>>

\* getCachedDSMContract() resolved: the contract's prefix constant is requested.
AttestContractResolved(t) ==
  /\ task[t].pc = "awaitContract"
  /\ task[t].op \in AttestOps
  /\ attestPrefixCalls' = Inc(attestPrefixCalls)
  /\ task' = [task EXCEPT ![t].pc = "awaitPrefix"]
  /\ UNCHANGED <<cacheVars, pausePrefixCalls, walletLog, pauseVars>>

PauseContractResolved(t) ==
  /\ task[t].pc = "awaitContract"
  /\ task[t].op \in PauseOps
  /\ pausePrefixCalls' = Inc(pausePrefixCalls)
  /\ task' = [task EXCEPT ![t].pc = "awaitPrefix"]
  /\ UNCHANGED <<cacheVars, attestPrefixCalls, walletLog, pauseVars>>

AttestPrefixResolved_toggle(t) ==
  /\ task[t].pc = "awaitPrefix"
  /\ task[t].op \in AttestOps
  /\ cachedAttestMessagePrefix' =
       IF Falsy(cachedAttestMessagePrefix) THEN dsm.attest ELSE NULL
  /\ LET rec == PrefixReturned(task[t], dsm.attest)
     IN /\ task' = [task EXCEPT ![t] = rec]
        /\ walletLog' = WalletAsked(rec)
  /\ UNCHANGED <<cachedPauseMessagePrefix, prefixHist, pauseVars>>

\* ATTEST_MESSAGE_PREFIX() resolved: the field is assigned and returned.
AttestPrefixResolved(t) ==
  /\ task[t].pc = "awaitPrefix"
  /\ task[t].op \in AttestOps
  /\ cachedAttestMessagePrefix' = dsm.attest
  /\ LET rec == PrefixReturned(task[t], cachedAttestMessagePrefix')
     IN /\ task' = [task EXCEPT ![t] = rec]
        /\ walletLog' = WalletAsked(rec)
  /\ UNCHANGED <<cachedPauseMessagePrefix, prefixHist, pauseVars>>

PausePrefixResolved(t) ==
  /\ task[t].pc = "awaitPrefix"
  /\ task[t].op \in PauseOps
  /\ cachedPauseMessagePrefix' = dsm.pause
  /\ LET rec == PrefixReturned(task[t], cachedPauseMessagePrefix')
     IN /\ task' = [task EXCEPT ![t] = rec]
        /\ walletLog' = WalletAsked(rec)
  /\ UNCHANGED <<cachedAttestMessagePrefix, prefixHist, pauseVars>>

\* walletService.signDepositData / signPauseData resolved with the signature.
WalletSigned(t) ==
  /\ task[t].pc = "awaitSign"
  /\ task' = [task EXCEPT
       ![t].sig = WalletSign(task[t].op, task[t].prefix, task[t].blockNumber,
                             task[t].stakingModuleId),
       ![t].pc = "done",
       ![t].outcome = "ok"]
  /\ UNCHANGED <<cacheVars, prefixHist, walletLog, pauseVars>>

\* Array.prototype.indexOf: the zero-based position of the first element equal
\* to x, scanning from the front, and -1 when there is none.
RECURSIVE IndexFrom(_, _, _)
IndexFrom(list, x, k) ==
  IF k > Len(list) THEN -1
  ELSE IF list[k] = x THEN k - 1
  ELSE IndexFrom(list, x, k + 1)

indexOf_oneBased(list, x) == IndexFrom(list, x, 1) + 1

indexOf(list, x) == IndexFrom(list, x, 1)

\* getGuardians(blockTag) up to its first await.
getGuardianIndex(t, blockTag) ==
  /\ Start(t, NewTask("getGuardianIndex", "awaitContract", blockTag, 0, NoSig))
  /\ UNCHANGED <<cacheVars, prefixHist, svcRest>>

\* getCachedDSMContract() resolved: contract.getGuardians({blockTag}) is sent.
GuardiansContractResolved(t) ==
  /\ task[t].pc = "awaitContract"
  /\ task[t].op = "getGuardianIndex"
  /\ task' = [task EXCEPT ![t].pc = "awaitGuardians"]
  /\ UNCHANGED <<cacheVars, prefixHist, walletLog, pauseVars>>

\* getGuardians resolved with the list at blockTag; the index is looked up.
GuardiansResolved(t) ==
  /\ task[t].pc = "awaitGuardians"
  /\ LET guardians == guardiansAt[task[t].blockNumber]
         address == WalletAddress
     IN task' = [task EXCEPT ![t].guardians = guardians,
                             ![t].index = indexOf(guardians, address),
                             ![t].pc = "done",
                             ![t].outcome = "ok"]
  /\ UNCHANGED <<cacheVars, prefixHist, walletLog, pauseVars>>

\* ------------------------------------------------- pauseDeposits
\* A pause transaction is in flight: handed to the provider and neither
\* rejected nor confirmed yet.
InFlight(t) == tx[t].state \in {"sending", "pending"}

\* The transaction for module m is sent and waits for its confirmation.
OnChainPending(m) ==
  \E u \in Tasks : tx[u].state = "pending" /\ tx[u].stakingModuleId = m

\* OneAtTime: the decorated method is executing.
OneAtTimeBusy == isExecuting

\* OneAtTime: the wrapper lets the invocation in.
OneAtTimeEnter == isExecuting' = TRUE

OneAtTimeExit_never == isExecuting' = isExecuting

\* OneAtTime: the wrapper is left, whether the method returned or threw.
OneAtTimeExit == isExecuting' = FALSE

\* The submitter's result for an error thrown by the method: "already paused"
\* is swallowed, any other error is logged and the attempt has failed.
OneAtTimeCatch_rethrow(err) == "failed"

OneAtTimeCatch(err) == IF err = "already_paused" THEN "ok" ELSE "failed"

\* An invocation that found the gate closed: it returns at once, nothing ran.
Skipped(rec) == [rec EXCEPT !.pc = "done", !.outcome = "skipped"]

PauseBodyEntry_noInc(t, rec) ==
  /\ pauseAttempts' = pauseAttempts
  /\ task' = [task EXCEPT ![t] = [rec EXCEPT !.pc = "awaitSigner", !.trace = <<"inc">>]]

\* The method body up to its first await: the warning, pauseAttempts.inc() and
\* the start of getContractWithSigner().
PauseBodyEntry(t, rec) ==
  /\ pauseAttempts' = Inc(pauseAttempts)
  /\ task' = [task EXCEPT ![t] = [rec EXCEPT !.pc = "awaitSigner", !.trace = <<"inc">>]]

pauseDeposits_undecorated(t, blockNumber, stakingModuleId, signature) ==
  /\ Free(t)
  /\ PauseBodyEntry(t, [NewTask("pauseDeposits", "start", blockNumber,
                                stakingModuleId, signature)
                          EXCEPT !.busy = OnChainPending(stakingModuleId)])
  /\ tx' = [tx EXCEPT ![t] = NoTx]
  /\ UNCHANGED <<isExecuting, cacheVars, prefixHist, walletLog>>

\* @OneAtTime() pauseDeposits(blockNumber, stakingModuleId, signature), up to
\* the first await of the body.
pauseDeposits(t, blockNumber, stakingModuleId, signature) ==
  /\ Free(t)
  /\ LET rec == [NewTask("pauseDeposits", "start", blockNumber, stakingModuleId,
                         signature)
                 EXCEPT !.busy = OnChainPending(stakingModuleId)]
     IN IF OneAtTimeBusy
        THEN /\ task' = [task EXCEPT ![t] = Skipped(rec)]
             /\ UNCHANGED <<isExecuting, pauseAttempts>>
        ELSE /\ OneAtTimeEnter
             /\ PauseBodyEntry(t, rec)
  /\ tx' = [tx EXCEPT ![t] = NoTx]
  /\ UNCHANGED <<cacheVars, prefixHist, walletLog>>

\* The invocation is over with error err ("none": the body returned).
PauseFinished(t, err) ==
  /\ OneAtTimeExit
  /\ task' = [task EXCEPT
       ![t].pc = "done",
       ![t].err = err,
       ![t].outcome = IF err = "none" THEN "ok" ELSE OneAtTimeCatch(err),
       ![t].trace = Append(task[t].trace, "complete")]

PauseSignerResolved_swapped(t) ==
  /\ task[t].pc = "awaitSigner"
  /\ tx' = [tx EXCEPT ![t] =
       [state |-> "sending",
        blockNumber |-> task[t].blockNumber,
        stakingModuleId |-> task[t].stakingModuleId,
        r |-> task[t].sig._vs,
        vs |-> task[t].sig.r]]
  /\ task' = [task EXCEPT ![t].pc = "awaitSend",
                          ![t].trace = Append(task[t].trace, "send")]
  /\ UNCHANGED <<isExecuting, pauseAttempts, moduleActive, cacheVars, prefixHist,
                 walletLog>>

PauseSignerResolved_badArgs(t) ==
  /\ task[t].pc = "awaitSigner"
  /\ tx' = [tx EXCEPT ![t] =
       [state |-> "rejected",
        blockNumber |-> task[t].blockNumber,
        stakingModuleId |-> task[t].stakingModuleId,
        r |-> task[t].sig.r,
        vs |-> <<>>]]
  /\ PauseFinished(t, "transient")
  /\ UNCHANGED <<pauseAttempts, moduleActive, cacheVars, prefixHist, walletLog>>

\* getContractWithSigner() resolved: contract.pauseDeposits(blockNumber,
\* stakingModuleId, {r, vs}) is called.
PauseSignerResolved(t) ==
  /\ task[t].pc = "awaitSigner"
  /\ tx' = [tx EXCEPT ![t] =
       [state |-> "sending",
        blockNumber |-> task[t].blockNumber,
        stakingModuleId |-> task[t].stakingModuleId,
        r |-> task[t].sig.r,
        vs |-> task[t].sig._vs]]
  /\ task' = [task EXCEPT ![t].pc = "awaitSend",
                          ![t].trace = Append(task[t].trace, "send")]
  /\ UNCHANGED <<isExecuting, pauseAttempts, moduleActive, cacheVars, prefixHist,
                 walletLog>>

\* getContractWithSigner() threw.
PauseSignerRejected(t) ==
  /\ task[t].pc = "awaitSigner"
  /\ PauseFinished(t, "transient")
  /\ UNCHANGED <<pauseAttempts, tx, moduleActive, cacheVars, prefixHist, walletLog>>

PauseSendResolved_noWait(t) ==
  /\ task[t].pc = "awaitSend"
  /\ tx' = [tx EXCEPT ![t].state = "pending"]
  /\ PauseFinished(t, "none")
  /\ UNCHANGED <<pauseAttempts, moduleActive, cacheVars, prefixHist, walletLog>>

\* contract.pauseDeposits resolved with the transaction: it is logged and
\* tx.wait() is awaited.
PauseSendResolved(t) ==
  /\ task[t].pc = "awaitSend"
  /\ tx' = [tx EXCEPT ![t].state = "pending"]
  /\ task' = [task EXCEPT ![t].pc = "awaitWait",
                          ![t].trace = Append(task[t].trace, "wait")]
  /\ UNCHANGED <<isExecuting, pauseAttempts, moduleActive, cacheVars, prefixHist,
                 walletLog>>

\* contract.pauseDeposits threw: the node or the contract refused the
\* transaction ("already_paused" only for a module that is paused).
PauseSendRejected(t, err) ==
  /\ task[t].pc = "awaitSend"
  /\ err = "already_paused" => ~moduleActive[task[t].stakingModuleId]
  /\ tx' = [tx EXCEPT ![t].state = "rejected"]
  /\ PauseFinished(t, err)
  /\ UNCHANGED <<pauseAttempts, moduleActive, cacheVars, prefixHist, walletLog>>

\* tx.wait() resolved: one confirmation, the module is paused on chain.
PauseWaitResolved(t) ==
  /\ task[t].pc = "awaitWait"
  /\ tx' = [tx EXCEPT ![t].state = "mined"]
  /\ moduleActive' = [moduleActive EXCEPT ![task[t].stakingModuleId] = FALSE]
  /\ OneAtTimeExit
  /\ task' = [task EXCEPT
       ![t].pc = "done",
       ![t].outcome = "ok",
       ![t].trace = task[t].trace \o <<"confirmed", "complete">>]
  /\ UNCHANGED <<pauseAttempts, cacheVars, prefixHist, walletLog>>

\* tx.wait() threw: the transaction was mined and reverted, or dropped.
PauseWaitRejected(t) ==
  /\ task[t].pc = "awaitWait"
  /\ tx' = [tx EXCEPT ![t].state = "reverted"]
  /\ OneAtTimeExit
  /\ task' = [task EXCEPT
       ![t].pc = "done",
       ![t].err = "transient",
       ![t].outcome = OneAtTimeCatch("transient"),
       ![t].trace = task[t].trace \o <<"confirmed", "complete">>]
  /\ UNCHANGED <<pauseAttempts, moduleActive, cacheVars, prefixHist, walletLog>>

\* ------------------------------------------------- outside callers
\* The public methods of SecurityService under any interleaving of calls.
outerRest == <<pipeVars, provVars>>
readVars == <<cachedAttestMessagePrefix, cachedPauseMessagePrefix,
              attestPrefixCalls, pausePrefixCalls, walletLog>>

Called == calls < MaxCalls /\ calls' = calls + 1

CallGetAttestMessagePrefix ==
  /\ Called
  /\ \E t \in Tasks : getAttestMessagePrefix(t)
  /\ UNCHANGED <<chainVars, outerRest>>

CallGetPauseMessagePrefix ==
  /\ Called
  /\ \E t \in Tasks : getPauseMessagePrefix(t)
  /\ UNCHANGED <<chainVars, outerRest>>

CallSignDepositData ==
  /\ Called
  /\ \E t \in Tasks, m \in Modules : signDepositData(t, head, m)
  /\ UNCHANGED <<chainVars, outerRest>>

CallSignPauseData ==
  /\ Called
  /\ \E t \in Tasks, m \in Modules : signPauseData(t, head, m)
  /\ UNCHANGED <<chainVars, outerRest>>

CallGetGuardianIndex ==
  /\ Called
  /\ \E t \in Tasks, b \in 1..head : getGuardianIndex(t, b)
  /\ UNCHANGED <<chainVars, outerRest>>

CallPauseDeposits ==
  /\ Called
  /\ \E t \in Tasks, m \in Modules, sig \in SigPool : pauseDeposits(t, head, m, sig)
  /\ UNCHANGED <<chainVars, outerRest>>

\* A suspended call resumes.
ResumeAttestContract ==
  (\E t \in Tasks : AttestContractResolved(t)) /\ UNCHANGED <<chainVars, calls, outerRest>>

ResumePauseContract ==
  (\E t \in Tasks : PauseContractResolved(t)) /\ UNCHANGED <<chainVars, calls, outerRest>>

ResumeAttestPrefix ==
  (\E t \in Tasks : AttestPrefixResolved(t)) /\ UNCHANGED <<chainVars, calls, outerRest>>

ResumePausePrefix ==
  (\E t \in Tasks : PausePrefixResolved(t)) /\ UNCHANGED <<chainVars, calls, outerRest>>

ResumeWalletSigned ==
  (\E t \in Tasks : WalletSigned(t)) /\ UNCHANGED <<chainVars, calls, outerRest>>

ResumeGuardiansContract ==
  (\E t \in Tasks : GuardiansContractResolved(t))
  /\ UNCHANGED <<chainVars, calls, outerRest>>

ResumeGuardians ==
  (\E t \in Tasks : GuardiansResolved(t)) /\ UNCHANGED <<chainVars, calls, outerRest>>

pauseOuter == <<head, guardiansAt, dsm, calls>>

ResumeSignerResolved ==
  (\E t \in Tasks : PauseSignerResolved(t)) /\ UNCHANGED <<pauseOuter, outerRest>>

ResumeSignerRejected ==
  (\E t \in Tasks : PauseSignerRejected(t)) /\ UNCHANGED <<pauseOuter, outerRest>>

ResumeSendResolved ==
  (\E t \in Tasks : PauseSendResolved(t)) /\ UNCHANGED <<pauseOuter, outerRest>>

ResumeSendRejected ==
  /\ \E t \in Tasks, err \in {"already_paused", "transient"} : PauseSendRejected(t, err)
  /\ UNCHANGED <<pauseOuter, outerRest>>

ResumeWaitResolved ==
  (\E t \in Tasks : PauseWaitResolved(t)) /\ UNCHANGED <<pauseOuter, outerRest>>

ResumeWaitRejected ==
  (\E t \in Tasks : PauseWaitRejected(t)) /\ UNCHANGED <<pauseOuter, outerRest>>

\* Spec: pause submission, any interleaving of pauseDeposits invocations.
Next ==
  \/ CallPauseDeposits
  \/ ResumeSignerResolved
  \/ ResumeSignerRejected
  \/ ResumeSendResolved
  \/ ResumeSendRejected
  \/ ResumeWaitResolved
  \/ ResumeWaitRejected

Spec == Init /\ [][Next]_vars

\* PrefixSpec: the prefix getters and the two sign operations, any interleaving.
PrefixInit ==
  /\ ChainInit({<<WalletAddress>>}, AttestPrefixes, PausePrefixes)
  /\ ServiceInit /\ PipeInit /\ ProvInit

PrefixNext ==
  \/ CallGetAttestMessagePrefix
  \/ CallGetPauseMessagePrefix
  \/ CallSignDepositData
  \/ CallSignPauseData
  \/ ResumeAttestContract
  \/ ResumePauseContract
  \/ ResumeAttestPrefix
  \/ ResumePausePrefix
  \/ ResumeWalletSigned

PrefixSpec == PrefixInit /\ [][PrefixNext]_vars

\* GuardianSpec: getGuardianIndex at any block tag while the chain grows and the
\* guardian set changes from block to block.
GuardianInit ==
  /\ ChainInit(GuardianLists, {"A1"}, {"P1"})
  /\ ServiceInit /\ PipeInit /\ ProvInit

GuardianNext ==
  \/ NewBlock
  \/ CallGetGuardianIndex
  \/ ResumeGuardiansContract
  \/ ResumeGuardians

GuardianSpec == GuardianInit /\ [][GuardianNext]_vars

\* ------------------------------------------------- block loop
\* The per-block pipeline of the orchestrator: one block at a time, the modules
\* in ascending id order, the on-chain pause handed over and not awaited.
IsDepositsPaused_inverted(stakingModuleId) == moduleActive[stakingModuleId]

\* SecurityService.isDepositsPaused: the negation of getStakingModuleIsActive.
IsDepositsPaused(stakingModuleId) == ~moduleActive[stakingModuleId]

\* Block numbers from MaxBlock on are folded into MaxBlock.
NextBlockNumber(n) == IF n < MaxBlock THEN n + 1 ELSE MaxBlock

svcVars == <<cachedAttestMessagePrefix, cachedPauseMessagePrefix, isExecuting,
             pauseAttempts, task, tx, attestPrefixCalls, pausePrefixCalls,
             walletLog>>

orchOuter == <<chainVars, calls, provVars>>

\* The slot the block loop uses for its next call: the lowest free one.
FreeSlot(t) == Free(t) /\ \A u \in Tasks : Free(u) => t <= u

\* Settled promises nobody holds any more are dropped.
Reaped(f, idle) == [t \in Tasks |-> IF task[t].pc = "done" THEN idle ELSE f[t]]

\* What the guardian probe of a block can yield: the index getGuardianIndex
\* computes for the block's guardian list, and whether the wallet is in it.
GuardianProbes ==
  {[guardianIndex |-> indexOf(g, WalletAddress), inSet |-> WalletAddress \in Range(g)] :
     g \in GuardianLists}

\* The modules a block's deposits newly put in conflict: none, or one.
NewConflicts == {{}} \cup {{m} : m \in Modules}

\* A new block B is taken: the guardian context is probed at B, the key
\* snapshot is fetched, the conflict sets are computed (a conflict stays).
OrchNewBlock ==
  /\ orch.pc = "idle"
  /\ \E probe \in GuardianProbes, fresh \in BOOLEAN, found \in NewConflicts :
       /\ orch' = [pc |-> "module", cursor |-> 1,
                   blockNumber |-> NextBlockNumber(orch.blockNumber),
                   fresh |-> fresh,
                   guardianIndex |-> probe.guardianIndex,
                   inSet |-> probe.inSet,
                   wait |-> 0]
       /\ conflict' = [m \in Modules |-> conflict[m] \/ m \in found]
  /\ bus' = [m \in Modules |-> NoMessages]
  /\ decision' = [m \in Modules |-> "none"]
  /\ blockSigns' = 0
  /\ blockPauses' = 0
  /\ task' = Reaped(task, IdleTask)
  /\ tx' = Reaped(tx, NoTx)
  /\ UNCHANGED <<skippedPause, cacheVars, prefixHist, walletLog, isExecuting,
                 pauseAttempts, orchOuter>>

AtModule == orch.pc = "module" /\ orch.cursor \in Modules

Decide(d) ==
  /\ decision' = [decision EXCEPT ![orch.cursor] = d]
  /\ orch' = [orch EXCEPT !.pc = "module", !.cursor = orch.cursor + 1, !.wait = 0]

\* Skip(reason): the module is paused, the wallet is no guardian at B, or the
\* key snapshot is stale. Nothing is signed.
OrchSkip ==
  /\ AtModule
  /\ \/ IsDepositsPaused(orch.cursor) /\ Decide("Skip_paused")
     \/ /\ ~IsDepositsPaused(orch.cursor)
        /\ orch.guardianIndex < 0
        /\ Decide("Skip_not_guardian")
     \/ /\ ~IsDepositsPaused(orch.cursor)
        /\ orch.guardianIndex >= 0
        /\ ~orch.fresh
        /\ Decide("Skip_stale_snapshot")
  /\ UNCHANGED <<conflict, bus, blockSigns, blockPauses, skippedPause, svcVars,
                 orchOuter>>

CanSign ==
  /\ AtModule
  /\ ~IsDepositsPaused(orch.cursor)
  /\ orch.guardianIndex >= 0
  /\ orch.fresh

\* Empty conflict set: the attest message is signed.
OrchSignAttest ==
  /\ CanSign
  /\ ~conflict[orch.cursor]
  /\ \E t \in Tasks :
       /\ FreeSlot(t)
       /\ signDepositData(t, orch.blockNumber, orch.cursor)
       /\ orch' = [orch EXCEPT !.pc = "awaitAttest", !.wait = t]
  /\ blockSigns' = blockSigns + 1
  /\ UNCHANGED <<conflict, bus, decision, blockPauses, skippedPause, orchOuter>>

\* Non-empty conflict set: the pause message is signed.
OrchSignPause ==
  /\ CanSign
  /\ conflict[orch.cursor]
  /\ \E t \in Tasks :
       /\ FreeSlot(t)
       /\ signPauseData(t, orch.blockNumber, orch.cursor)
       /\ orch' = [orch EXCEPT !.pc = "awaitPause", !.wait = t]
  /\ blockSigns' = blockSigns + 1
  /\ UNCHANGED <<conflict, bus, decision, blockPauses, skippedPause, orchOuter>>

\* The signed attest message is published: decision Attest.
OrchPublishAttest ==
  /\ orch.pc = "awaitAttest"
  /\ task[orch.wait].pc = "done"
  /\ bus' = [bus EXCEPT ![orch.cursor].deposit = @ + 1]
  /\ Decide("Attest")
  /\ task' = [task EXCEPT ![orch.wait] = IdleTask]
  /\ UNCHANGED <<conflict, blockSigns, blockPauses, skippedPause, cacheVars,
                 prefixHist, walletLog, pauseVars, orchOuter>>

\* The signed pause message is published and pauseDeposits is invoked with the
\* signature, without waiting for it: decision Pause.
OrchPublishPause ==
  /\ orch.pc = "awaitPause"
  /\ task[orch.wait].pc = "done"
  /\ bus' = [bus EXCEPT ![orch.cursor].pause = @ + 1]
  /\ pauseDeposits(orch.wait, orch.blockNumber, orch.cursor, task[orch.wait].sig)
  /\ blockPauses' = blockPauses + 1
  /\ skippedPause' =
       [skippedPause EXCEPT ![orch.cursor] =
          @ \/ \E u \in Tasks : InFlight(u) /\ tx[u].stakingModuleId # orch.cursor]
  /\ Decide("Pause")
  /\ UNCHANGED <<conflict, blockSigns, orchOuter>>

\* Every module has its decision: the block is done.
OrchBlockDone ==
  /\ orch.pc = "module"
  /\ orch.cursor \notin Modules
  /\ orch' = [orch EXCEPT !.pc = "idle"]
  /\ UNCHANGED <<conflict, bus, decision, blockSigns, blockPauses, skippedPause,
                 svcVars, orchOuter>>

PipeNext ==
  \/ OrchNewBlock
  \/ OrchSkip
  \/ OrchSignAttest
  \/ OrchSignPause
  \/ OrchPublishAttest
  \/ OrchPublishPause
  \/ OrchBlockDone
  \/ ResumeAttestContract
  \/ ResumePauseContract
  \/ ResumeAttestPrefix
  \/ ResumePausePrefix
  \/ ResumeWalletSigned
  \/ ResumeSignerResolved
  \/ ResumeSignerRejected
  \/ ResumeSendResolved
  \/ ResumeSendRejected
  \/ ResumeWaitResolved
  \/ ResumeWaitRejected

PipeSpec == Init /\ [][PipeNext]_vars

\* LivePipeSpec: the runtime resumes what can resume; blocks at which the wallet
\* is a guardian and the snapshot is fresh keep coming; for each module, a
\* pause attempt that keeps being made gets through each of its three awaits.
GoodBlock == OrchNewBlock /\ orch'.inSet /\ orch'.fresh

SignerOk(m) ==
  /\ \E t \in Tasks : task[t].stakingModuleId = m /\ PauseSignerResolved(t)
  /\ UNCHANGED <<pauseOuter, outerRest>>

SendOk(m) ==
  /\ \E t \in Tasks : task[t].stakingModuleId = m /\ PauseSendResolved(t)
  /\ UNCHANGED <<pauseOuter, outerRest>>

WaitOk(m) ==
  /\ \E t \in Tasks : task[t].stakingModuleId = m /\ PauseWaitResolved(t)
  /\ UNCHANGED <<pauseOuter, outerRest>>

\* The block loop is one sequential process: its own steps and the resumptions
\* of the sign call it awaits.
OrchProgress ==
  \/ OrchSkip
  \/ OrchSignAttest
  \/ OrchSignPause
  \/ OrchPublishAttest
  \/ OrchPublishPause
  \/ OrchBlockDone
  \/ ResumeAttestContract
  \/ ResumePauseContract
  \/ ResumeAttestPrefix
  \/ ResumePausePrefix
  \/ ResumeWalletSigned

PipeFairness ==
  /\ WF_vars(OrchProgress)
  /\ SF_vars(GoodBlock)
  /\ \A m \in Modules : SF_vars(SignerOk(m)) /\ SF_vars(SendOk(m)) /\ SF_vars(WaitOk(m))

LivePipeSpec == Init /\ [][PipeNext]_vars /\ PipeFairness

\* ------------------------------------------------- ProviderService
\* getChainId, getBlockNumber and getBlock over the JSON-RPC provider, one call
\* at a time, as the unit tests of ProviderService drive them.
provOuter == <<chainVars, svcVars, calls, pipeVars, healthVars>>

\* The node mines a block.
RpcNewBlock ==
  /\ rpc.blockNumber < MaxBlock
  /\ rpc' = [rpc EXCEPT !.blockNumber = @ + 1]
  /\ UNCHANGED <<pcall, rpcCalls, provOuter>>

NoCall == pcall.pc \in {"idle", "done"}

NewCall(op, tag) ==
  [IdleCall EXCEPT !.op = op, !.pc = "await", !.tag = tag, !.outcome = "pending"]

\* getChainId(): provider.getNetwork() is called.
CallGetChainId ==
  /\ NoCall
  /\ pcall' = NewCall("getChainId", "none")
  /\ rpcCalls' = [NoRpcCalls EXCEPT !.getNetwork = 1]
  /\ UNCHANGED <<rpc, provOuter>>

\* getBlockNumber(): provider.getBlockNumber() is called.
CallGetBlockNumber ==
  /\ NoCall
  /\ pcall' = NewCall("getBlockNumber", "none")
  /\ rpcCalls' = [NoRpcCalls EXCEPT !.getBlockNumber = 1]
  /\ UNCHANGED <<rpc, provOuter>>

\* The tag provider.getBlock is called with when getBlock() is given none.
DefaultBlockTag == "latest"

\* getBlock(): provider.getBlock('latest') is called.
CallGetBlock ==
  /\ NoCall
  /\ pcall' = NewCall("getBlock", "undefined")
  /\ rpcCalls' = [NoRpcCalls EXCEPT !.getBlock = 1]
  /\ rpc' = [rpc EXCEPT !.asked = DefaultBlockTag]
  /\ UNCHANGED provOuter

\* What the node answers to the pending request.
RpcAnswer ==
  CASE pcall.op = "getChainId" -> rpc.network
    [] pcall.op = "getBlockNumber" -> NumberValue(rpc.blockNumber)
    [] pcall.op = "getBlock" ->
         BlockValue(IF rpc.asked = "latest" THEN rpc.blockNumber ELSE 0, rpc.asked)

ReturnedFrom_raw(op, answer) == answer

\* What the method returns for the provider's answer: getChainId hands back the
\* chainId of the Network, the other two the answer itself.
ReturnedFrom(op, answer) ==
  IF op = "getChainId" THEN NumberValue(answer.num) ELSE answer

\* The provider call resolved.
RpcResolved ==
  /\ pcall.pc = "await"
  /\ pcall' = [pcall EXCEPT !.pc = "done", !.outcome = "ok", !.got = RpcAnswer,
                            !.ret = ReturnedFrom(pcall.op, RpcAnswer)]
  /\ UNCHANGED <<rpc, rpcCalls, provOuter>>

\* The provider call rejected: the method throws.
RpcRejected ==
  /\ pcall.pc = "await"
  /\ pcall' = [pcall EXCEPT !.pc = "done", !.outcome = "failed"]
  /\ UNCHANGED <<rpc, rpcCalls, provOuter>>

ProvSpecInit ==
  /\ ChainInit({<<WalletAddress>>}, {"A1"}, {"P1"})
  /\ ServiceInit /\ PipeInit
  /\ rpc \in [network : Networks, blockNumber : {1}, asked : {"none"}]
  /\ pcall = IdleCall
  /\ rpcCalls = NoRpcCalls
  /\ clockMs = MAX_BLOCK_DELAY_SECONDS * MsPerSecond
  /\ latestTimestamp = MAX_BLOCK_DELAY_SECONDS
  /\ health = IdleHealth

ProvNext ==
  \/ RpcNewBlock
  \/ CallGetChainId
  \/ CallGetBlockNumber
  \/ CallGetBlock
  \/ RpcResolved
  \/ RpcRejected

ProvSpec == ProvSpecInit /\ [][ProvNext]_vars

\* ------------------------------------------------- ProviderHealthIndicator
healthOuter == <<chainVars, svcVars, calls, pipeVars, rpc, pcall, rpcCalls>>

\* Half a second passes on the host's clock.
ClockTick ==
  /\ clockMs + 500 < (MAX_BLOCK_DELAY_SECONDS + MaxDrift + 1) * MsPerSecond
  /\ clockMs' = clockMs + 500
  /\ UNCHANGED <<latestTimestamp, health, healthOuter>>

\* The node has a new latest block; its timestamp is later than the previous
\* block's and may be ahead of or behind the host's clock.
HealthNewBlock ==
  /\ \E ts \in Times : ts > latestTimestamp /\ latestTimestamp' = ts
  /\ UNCHANGED <<clockMs, health, healthOuter>>

Abs(n) == IF n < 0 THEN -n ELSE n

\* getNowTimestamp(): Math.floor(Date.now() / 1000).
getNowTimestamp == clockMs \div MsPerSecond

\* isHealthy after getBlockTimestamp() has given blockTimestamp: the status, and
\* the HealthCheckError when it is not healthy.
HealthVerdict(rec, blockTimestamp) ==
  LET nowTimestamp == getNowTimestamp
      deltaTimestamp == Abs(nowTimestamp - blockTimestamp)
      isHealthy == deltaTimestamp < MAX_BLOCK_DELAY_SECONDS
  IN [rec EXCEPT !.pc = "done",
                 !.blockTimestamp = blockTimestamp,
                 !.nowTimestamp = nowTimestamp,
                 !.status = IF isHealthy THEN "up" ELSE "down",
                 !.thrown = IF isHealthy THEN "none" ELSE "HealthCheckError"]

\* isHealthy(key) up to the await of providerService.getBlock().
isHealthy ==
  /\ health.pc \in {"idle", "done"}
  /\ health' = [IdleHealth EXCEPT !.pc = "awaitBlock"]
  /\ UNCHANGED <<clockMs, latestTimestamp, healthOuter>>

\* getBlock() resolved: block.timestamp is returned and judged.
HealthBlockResolved ==
  /\ health.pc = "awaitBlock"
  /\ health' = HealthVerdict(health, latestTimestamp)
  /\ UNCHANGED <<clockMs, latestTimestamp, healthOuter>>

HealthBlockRejected_propagates ==
  /\ health.pc = "awaitBlock"
  /\ health' = [health EXCEPT !.pc = "done", !.blockFailed = TRUE,
                              !.thrown = "ProviderError"]
  /\ UNCHANGED <<clockMs, latestTimestamp, healthOuter>>

\* getBlock() rejected: the catch returns -1 and that is judged.
HealthBlockRejected ==
  /\ health.pc = "awaitBlock"
  /\ health' = HealthVerdict([health EXCEPT !.blockFailed = TRUE], -1)
  /\ UNCHANGED <<clockMs, latestTimestamp, healthOuter>>

HealthInit ==
  /\ ChainInit({<<WalletAddress>>}, {"A1"}, {"P1"})
  /\ ServiceInit /\ PipeInit
  /\ rpc = [network |-> NetworkValue(5, "goerli"), blockNumber |-> 1, asked |-> "none"]
  /\ pcall = IdleCall
  /\ rpcCalls = NoRpcCalls
  /\ clockMs \in {t * MsPerSecond : t \in Times}
  /\ latestTimestamp \in Times
  /\ health = IdleHealth

HealthNext ==
  \/ ClockTick
  \/ HealthNewBlock
  \/ isHealthy
  \/ HealthBlockResolved
  \/ HealthBlockRejected

HealthSpec == HealthInit /\ [][HealthNext]_vars

\* ------------------------------------------------- properties
PauseTasks == {t \in Tasks : task[t].op = "pauseDeposits"}

IsPrefix(s, full) == Len(s) <= Len(full) /\ \A i \in 1..Len(s) : s[i] = full[i]

\* C1: at most one pause transaction is in flight (handed to the provider and
\* not yet rejected or confirmed) at any instant, whatever the staking modules
\* of the invocations.
C1_AtMostOnePauseInFlight == Cardinality({t \in Tasks : InFlight(t)}) <= 1

\* C1 witness: a pause transaction for one module is in flight and an
\* invocation for another module has arrived meanwhile.
C1_Witness ==
  \E t, u \in PauseTasks :
    /\ InFlight(t)
    /\ task[u].pc = "done"
    /\ task[u].outcome = "skipped"
    /\ task[u].stakingModuleId # task[t].stakingModuleId

\* C2 (as claimed): for the block being processed and every module that was
\* active when its turn came, once the module has its decision the bus holds
\* exactly one deposit message and no pause message if the conflict set is
\* empty, and exactly one pause message and no deposit message otherwise.
Processed(m) == decision[m] \notin {"none", "Skip_paused"}

OneMessage(m) ==
  IF conflict[m]
  THEN bus[m] = [deposit |-> 0, pause |-> 1]
  ELSE bus[m] = [deposit |-> 1, pause |-> 0]

C4_PrefixReadOnce == attestPrefixCalls <= 1 /\ pausePrefixCalls <= 1

C7_PendingSkipsFurtherAttempts ==
  \A t \in PauseTasks :
    task[t].busy =>
      /\ task[t].pc = "done"
      /\ task[t].outcome = "skipped"
      /\ tx[t].state = "none"
      /\ task[t].trace = <<>>

\* C7 witness: such an invocation, with the module's transaction still pending.
C7_Witness ==
  \E t, u \in PauseTasks :
    /\ t # u
    /\ task[t].busy
    /\ tx[u].state = "pending"
    /\ tx[u].stakingModuleId = task[t].stakingModuleId

\* C8: an invocation that sent a transaction has not completed, and the gate is
\* not released, before tx.wait() returned; within one attempt the events are
\* counter increment, send, wait, confirmation, completion, in this order.
C8_WaitsForConfirmation ==
  \A t \in PauseTasks :
    /\ tx[t].state = "sending" => task[t].pc = "awaitSend" /\ isExecuting
    /\ tx[t].state = "pending" => task[t].pc = "awaitWait" /\ isExecuting
    /\ \/ IsPrefix(task[t].trace, <<"inc", "send", "wait", "confirmed", "complete">>)
       \/ task[t].trace = <<"inc", "complete">>
       \/ task[t].trace = <<"inc", "send", "complete">>
    /\ task[t].trace # <<>> => pauseAttempts >= 1

\* C8 witness: an attempt that went through all five events.
C8_Witness ==
  \E t \in PauseTasks :
    /\ task[t].trace = <<"inc", "send", "wait", "confirmed", "complete">>
    /\ tx[t].state = "mined"
    /\ ~isExecuting

\* C9: getGuardianIndex(blockTag) is -1 exactly when the wallet address is not
\* in the guardian list of the DSM contract at blockTag, and otherwise the
\* zero-based position of the wallet address in that list, whatever happened to
\* the guardian set in other blocks.
C9_GuardianIndex ==
  \A t \in Tasks :
    (task[t].op = "getGuardianIndex" /\ task[t].pc = "done") =>
      LET g == guardiansAt[task[t].blockNumber]
          i == task[t].index
      IN /\ task[t].guardians = g
         /\ (i = -1) <=> (WalletAddress \notin Range(g))
         /\ i # -1 => (i \in 0..(Len(g) - 1) /\ g[i + 1] = WalletAddress)

\* C9 witness: the wallet is second in the list at the queried block and is no
\* guardian any more at a later block.
C9_Witness ==
  \E t \in Tasks :
    /\ task[t].op = "getGuardianIndex"
    /\ task[t].pc = "done"
    /\ task[t].index = 1
    /\ task[t].blockNumber < head
    /\ WalletAddress \notin Range(guardiansAt[head])

OneRpcCall(op) ==
  rpcCalls = [NoRpcCalls EXCEPT ![CASE op = "getChainId" -> "getNetwork"
                                    [] op = "getBlockNumber" -> "getBlockNumber"
                                    [] op = "getBlock" -> "getBlock"] = 1]

\* C10 (as claimed): every read of ProviderService makes exactly one call of
\* the corresponding provider method and returns what that call resolved to,
\* unchanged; getBlock without a tag asks for 'latest'.
C10_OneCallResultUnchanged ==
  (pcall.pc = "done" /\ pcall.outcome = "ok") =>
    /\ OneRpcCall(pcall.op)
    /\ pcall.ret = pcall.got
    /\ pcall.op = "getBlock" => rpc.asked = "latest"

\* C10 (amended): as claimed for getBlockNumber and getBlock; getChainId makes
\* exactly one call of provider.getNetwork() and returns the chainId of the
\* Network it resolved to, not the Network.
C10_OneCallChainIdOfNetwork ==
  /\ pcall.op # "none" => OneRpcCall(pcall.op)
  /\ (pcall.pc = "done" /\ pcall.outcome = "ok") =>
       /\ pcall.op = "getChainId" =>
            (pcall.got = rpc.network /\ pcall.ret = NumberValue(rpc.network.num))
       /\ pcall.op = "getBlockNumber" =>
            (pcall.ret = pcall.got /\ pcall.ret.type = "number")
       /\ pcall.op = "getBlock" =>
            /\ pcall.ret = pcall.got
            /\ rpc.asked = "latest"
            /\ pcall.ret.type = "block"
            /\ pcall.ret.name = "latest"

\* C10 witness: getChainId has returned 42 on the network the test uses.
C10_Witness ==
  /\ pcall.op = "getChainId"
  /\ pcall.pc = "done"
  /\ pcall.ret = NumberValue(42)
  /\ pcall.got = NetworkValue(42, "kovan")

InBody(t) == task[t].pc \in {"awaitSigner", "awaitSend", "awaitWait"}

\* C11: when an invocation of pauseDeposits that acquired the gate finishes,
\* by returning or by throwing at getContractWithSigner, at
\* contract.pauseDeposits or at tx.wait(), the gate is free in the next state;
\* and an invocation made when every earlier one has finished is executed, not
\* skipped.
C11_FailedPauseFreesGate ==
  [][/\ \A t \in Tasks : (InBody(t) /\ task'[t].pc = "done") => ~isExecuting'
     /\ \A t \in Tasks :
          ((\A u \in Tasks : Free(u)) /\ ~Free(t)')
            => (task'[t].pc = "awaitSigner" /\ isExecuting')]_vars

\* C11 witness: an invocation failed at tx.wait() and the transaction of a
\* later invocation has been sent.
C11_Witness ==
  \E u, t \in PauseTasks :
    /\ task[u].pc = "done" /\ task[u].outcome = "failed"
    /\ tx[u].state = "reverted"
    /\ tx[t].state = "sending"

\* C12: cachedAttestMessagePrefix is null or the value ATTEST_MESSAGE_PREFIX()
\* returns, cachedPauseMessagePrefix is null or the value
\* PAUSE_MESSAGE_PREFIX() returns; a field that is set is never changed again;
\* every prefix a getter has returned is the value of its field.
C12_CachedPrefixImmutable ==
  /\ [](/\ cachedAttestMessagePrefix \in {NULL, dsm.attest}
        /\ cachedPauseMessagePrefix \in {NULL, dsm.pause}
        /\ \A t \in Tasks :
             /\ (task[t].op \in AttestOps /\ task[t].prefix # NULL)
                  => task[t].prefix = cachedAttestMessagePrefix
             /\ (task[t].op \in PauseOps /\ task[t].prefix # NULL)
                  => task[t].prefix = cachedPauseMessagePrefix)
  /\ [][/\ cachedAttestMessagePrefix # NULL
            => cachedAttestMessagePrefix' = cachedAttestMessagePrefix
        /\ cachedPauseMessagePrefix # NULL
            => cachedPauseMessagePrefix' = cachedPauseMessagePrefix]_vars

\* C12 witness: two reads of the contract were made by concurrent getters, the
\* field was assigned twice and a third call was served from the field.
C12_Witness ==
  /\ attestPrefixCalls = 2
  /\ calls = 3
  /\ cachedAttestMessagePrefix = "A2"
  /\ \A t \in Tasks :
       /\ task[t].op = "getAttestMessagePrefix"
       /\ task[t].pc = "done"
       /\ task[t].prefix = "A2"

\* C13: a transaction handed to contract.pauseDeposits carries the
\* blockNumber and stakingModuleId of the invocation that acquired the gate and
\* {r, vs} = {signature.r, signature._vs} of that invocation; an invocation that
\* was skipped has no transaction.
C13_TxCarriesInvocationArgs ==
  \A t \in Tasks :
    /\ tx[t].state # "none" =>
         /\ task[t].op = "pauseDeposits"
         /\ task[t].outcome # "skipped"
         /\ tx[t].blockNumber = task[t].blockNumber
         /\ tx[t].stakingModuleId = task[t].stakingModuleId
         /\ tx[t].r = task[t].sig.r
         /\ tx[t].vs = task[t].sig._vs
    /\ task[t].outcome = "skipped" => tx[t] = NoTx

\* C13 witness: a transaction is pending for one module while an invocation
\* for another module, with another signature, was skipped.
C13_Witness ==
  \E t, u \in PauseTasks :
    /\ tx[t].state = "pending"
    /\ task[u].outcome = "skipped"
    /\ task[u].stakingModuleId # task[t].stakingModuleId
    /\ task[u].sig # task[t].sig

\* C14: a step in which an invocation acquires the gate adds exactly one to
\* pauseAttempts, every other step (a skipped invocation, a send, a success, a
\* failure) leaves it alone; the increment comes before the send; the counter
\* is at least the number of transactions sent.
C14_CounterCountsStartedAttempts ==
  /\ [][IF \E t \in Tasks : Free(t) /\ InBody(t)'
        THEN pauseAttempts' = pauseAttempts + 1
        ELSE pauseAttempts' = pauseAttempts]_vars
  /\ [](/\ pauseAttempts <= calls
        /\ Cardinality({t \in Tasks : tx[t].state # "none"}) <= pauseAttempts
        /\ \A t \in PauseTasks :
             task[t].outcome # "skipped" => IsPrefix(<<"inc">>, task[t].trace))

\* C14 witness: three invocations, one failed, one skipped, one in flight: the
\* counter is 2.
C14_Witness ==
  /\ calls = 3
  /\ pauseAttempts = 2
  /\ \E t, u \in PauseTasks :
       /\ task[u].outcome = "skipped"
       /\ tx[t].state = "pending"

\* C15: every request to the wallet by signDepositData carries the contract's
\* attest prefix, every request by signPauseData the pause prefix; the prefix
\* was obtained (the field is set) before the wallet is asked.
C15_DomainSeparated ==
  \A w \in walletLog :
    /\ w.op = "signDepositData" =>
         (w.prefix = dsm.attest /\ cachedAttestMessagePrefix = dsm.attest)
    /\ w.op = "signPauseData" =>
         (w.prefix = dsm.pause /\ cachedPauseMessagePrefix = dsm.pause)
    /\ w.prefix # NULL

\* C15 witness: the wallet has signed a deposit message and a pause message
\* while both initialisations were racing.
C15_Witness ==
  /\ \E w \in walletLog : w.op = "signDepositData"
  /\ \E w \in walletLog : w.op = "signPauseData"
  /\ attestPrefixCalls + pausePrefixCalls >= 2

\* C16: isHealthy returns a healthy status exactly when the distance between
\* the current time and the latest block's timestamp is below
\* MAX_BLOCK_DELAY_SECONDS and throws HealthCheckError otherwise; when getBlock
\* failed the timestamp is -1, the provider's error is not thrown and the
\* outcome is HealthCheckError.
C16_HealthyIffBlockRecent ==
  /\ [](health.pc = "done" =>
         /\ health.thrown \in {"none", "HealthCheckError"}
         /\ (health.thrown = "none" /\ health.status = "up")
              <=> (Abs(health.nowTimestamp - health.blockTimestamp)
                     < MAX_BLOCK_DELAY_SECONDS)
         /\ (health.thrown = "HealthCheckError" /\ health.status = "down")
              <=> (Abs(health.nowTimestamp - health.blockTimestamp)
                     >= MAX_BLOCK_DELAY_SECONDS)
         /\ health.blockFailed =>
              (health.blockTimestamp = -1 /\ health.thrown = "HealthCheckError"))
  /\ [][(health.pc = "awaitBlock" /\ health'.pc = "done") =>
          /\ health'.nowTimestamp = clockMs \div MsPerSecond
          /\ ~health'.blockFailed => health'.blockTimestamp = latestTimestamp]_vars

\* C16 witness: getBlock failed although the latest block is as recent as the
\* clock, and the check threw HealthCheckError; the clock is past the second.
C16_Witness ==
  /\ health.pc = "done"
  /\ health.blockFailed
  /\ health.thrown = "HealthCheckError"
  /\ latestTimestamp = clockMs \div MsPerSecond
  /\ clockMs % MsPerSecond # 0

====
